---- MODULE Spec2Model ----
(***************************************************************************)
(* Model of sparsify/fused_encoder.py: the two autograd functions          *)
(* FusedEncoder and QuantizedFusedEncoder (forward and backward) and the   *)
(* dispatcher fused_encoder.                                               *)
(*                                                                         *)
(* Tensors are sequences (a matrix is a sequence of rows).  Positions in   *)
(* a sequence are 1-based, as TLA+ has them; the VALUES stored in          *)
(* `indices` are the 0-based column numbers the code returns, so column m  *)
(* of a row r is r[m + 1].  Numbers are integers: the tensors' entries are *)
(* drawn from integers and the quantization parameters are drawn so that   *)
(* (max_val - min_val) is a multiple of (levels - 1), which keeps every    *)
(* intermediate value of the quantizer an exact integer or an exact        *)
(* fraction over (max_val - min_val).  An optional value is a sequence of  *)
(* length 0 (None) or 1 (Some(x)).                                         *)
(***************************************************************************)
EXTENDS Integers, Sequences, FiniteSets, TLC

VARIABLES
    pc,      \* per call: "init", "forwarded", "raised", "done"
    args,    \* per call: the arguments of fused_encoder (None before the call)
    frame,   \* per call: the locals of forward computed before the selection
    out,     \* per call: the EncoderOutput returned by forward (None if none)
    err,     \* per call: the exception forward raised (None if none)
    ctx,     \* per call: the autograd context (saved_tensors, k)
    gargs,   \* per call: backward's arguments (grad_values, needs_input_grad)
    grads    \* per call: the tuple backward returned (None before it)

vars == <<pc, args, frame, out, err, ctx, gargs, grads>>

----------------------------------------------------------------------------
(* Optional values and small helpers                                       *)

None == <<>>
Some(x) == <<x>>
IsNone(o) == Len(o) = 0
Get(o) == o[1]

\* The sum  f[1] + ... + f[n]  of a sequence of integers.
RECURSIVE SumSeq(_)
SumSeq(s) == IF Len(s) = 0 THEN 0 ELSE s[1] + SumSeq(Tail(s))

\* Row-major flattening of a matrix (Tensor.flatten / reshape(-1, D)).
RECURSIVE Flatten(_)
Flatten(t) == IF Len(t) = 0 THEN <<>> ELSE t[1] \o Flatten(Tail(t))

NumRows(t) == Len(t)
NumCols(t) == Len(t[1])

\* The value torch produces for 0/0.  torch.topk and torch.max order it above
\* every number, which the model gets by making it larger than any entry;
\* but it compares unequal to everything, itself included, so the entries of
\* a float tensor are compared with FloatEq and FloatLe, never with = and <=.
NaN == 1000000
IsNaN(x) == x = NaN
FloatEq(x, y) == ~IsNaN(x) /\ ~IsNaN(y) /\ x = y
FloatLe(x, y) == ~IsNaN(x) /\ ~IsNaN(y) /\ x <= y

----------------------------------------------------------------------------
(* Linear + rectification (forward, lines 33 and 114)                      *)

Dot(x, w) == SumSeq([d \in 1..Len(x) |-> x[d] * w[d]])

\* F.linear(input, weight, bias): input @ weight.T + bias, bias optional.
Linear(input, weight, bias) ==
    [n \in 1..NumRows(input) |->
        [m \in 1..NumRows(weight) |->
            Dot(input[n], weight[m]) + (IF IsNone(bias) THEN 0 ELSE Get(bias)[m])]]

ReluScalar(x) == IF x < 0 THEN 0 ELSE x
Relu6Scalar(x) == IF x < 0 THEN 0 ELSE IF x > 6 THEN 6 ELSE x

Relu(t) == [n \in 1..Len(t) |-> [m \in 1..Len(t[n]) |-> ReluScalar(t[n][m])]]
Relu6(t) == [n \in 1..Len(t) |-> [m \in 1..Len(t[n]) |-> Relu6Scalar(t[n][m])]]

----------------------------------------------------------------------------
(* Stochastic quantization (QuantizedFusedEncoder.forward, lines 35-45)    *)

\* torch.rand_like draws every entry u uniformly from [0, 1).  The only use
\* of u is the test u < prob_up, and prob_up is a fraction p / den with p an
\* integer and den = max_val - min_val, so u < p / den exactly when
\* floor(u * den) < p: the model draws and stores r = floor(u * den), any
\* of 0..den-1, which gives every outcome a real u can give.
RandLike(t, den) == [1..NumRows(t) -> [1..NumCols(t) -> 0..(den - 1)]]

\* One entry of the quantizer.  With den = max_val - min_val > 0:
\*   x_scaled = num / den,  num = (out - min_val) * (levels - 1)
\*   x_floor  = floor(x_scaled),  prob_up = (num - x_floor * den) / den
\*   x_rounded = x_floor + 1 if rand < prob_up else x_floor,
\*               with rand < prob_up exactly when r < prob_num (r as RandLike)
\*   preact = x_rounded * den / (levels - 1) + min_val
\* With levels = 1 the last division is 0/0 (x_scaled is 0): NaN.
XRounded(v, r, min_val, max_val, levels) ==
    LET den == max_val - min_val
        num == (v - min_val) * (levels - 1)
        x_floor == num \div den
        prob_num == num - x_floor * den
    IN  IF r < prob_num THEN x_floor + 1 ELSE x_floor

QuantizeScalar(v, r, min_val, max_val, levels) ==
    IF levels = 1 THEN NaN
    ELSE (XRounded(v, r, min_val, max_val, levels) * (max_val - min_val))
             \div (levels - 1) + min_val

Quantize(o, rand, min_val, max_val, levels) ==
    [n \in 1..Len(o) |-> [m \in 1..Len(o[n]) |->
        QuantizeScalar(o[n][m], rand[n][m], min_val, max_val, levels)]]

----------------------------------------------------------------------------
(* Selection (forward, lines 47-60 and 117-130)                            *)

RuntimeError(what) == [type |-> "RuntimeError", msg |-> what]
ValueError(what) == [type |-> "ValueError", msg |-> what]

Raise(e) == [ok |-> FALSE, err |-> <<e>>, values |-> <<>>, indices |-> <<>>]
Return(v, i) == [ok |-> TRUE, err |-> <<>>, values |-> v, indices |-> i]

\* As TopKPick with the comparison reversed (largest=False): the k smallest.
RECURSIVE TopKPickSmallest(_, _, _)
TopKPickSmallest(row, k, taken) ==
    IF k = 0 THEN {<<>>}
    ELSE LET rest == (0..(Len(row) - 1)) \ taken
             best == {m \in rest : \A j \in rest : row[j + 1] >= row[m + 1]}
         IN  UNION {{<<m>> \o s : s \in TopKPickSmallest(row, k - 1, taken \cup {m})}
                      : m \in best}

\* All ways to pick k columns of a row, largest first, any column among
\* equal entries: sequences of 0-based columns, none in `taken`.
RECURSIVE TopKPick(_, _, _)
TopKPick(row, k, taken) ==
    IF k = 0 THEN {<<>>}
    ELSE LET rest == (0..(Len(row) - 1)) \ taken
             best == {m \in rest : \A j \in rest : row[j + 1] <= row[m + 1]}
         IN  UNION {{<<m>> \o s : s \in TopKPick(row, k - 1, taken \cup {m})} : m \in best}

\* torch.topk(row, k, sorted=False): the k largest entries in an order the
\* library does not specify, so every order of every pick is possible.
TopKRow(row, k) ==
    {[i \in 1..k |-> s[p[i]]] : s \in TopKPick(row, k, {}), p \in Permutations(1..k)}

\* All tensors whose n-th row is drawn from choices[n].
RECURSIVE RowProduct(_)
RowProduct(choices) ==
    IF Len(choices) = 0 THEN {<<>>}
    ELSE {<<r>> \o t : r \in choices[1], t \in RowProduct(Tail(choices))}

Gather(preacts, indices) ==
    [n \in 1..Len(indices) |-> [i \in 1..Len(indices[n]) |-> preacts[n][indices[n][i] + 1]]]

\* torch.topk(preacts, k, dim=1, sorted=False); k > M is a RuntimeError.
TopK(preacts, k) ==
    IF k > NumCols(preacts)
    THEN {Raise(RuntimeError("selected index k out of range"))}
    ELSE {Return(Gather(preacts, idx), idx) :
            idx \in RowProduct([n \in 1..Len(preacts) |-> TopKRow(preacts[n], k)])}

\* row.max(): the first position (1-based) holding the largest entry.
ArgMax(g) == CHOOSE i \in 1..Len(g) :
                 /\ \A j \in 1..Len(g) : g[j] <= g[i]
                 /\ \A j \in 1..(i - 1) : g[j] < g[i]

\* As Arange with the step left out: 0, 1, 2, ...
ArangeUnitStep(num_latents, step) ==
    [g \in 1..((num_latents + step - 1) \div step) |-> g - 1]

\* torch.arange(0, num_latents, step) as a sequence: 0, step, 2*step, ...
Arange(num_latents, step) ==
    [g \in 1..((num_latents + step - 1) \div step) |-> (g - 1) * step]

\* preacts.unflatten(-1, (k, -1)).max(dim=-1), then indices = offsets + indices.
\* unflatten raises unless k divides the number of columns.
GroupMax(preacts, k) ==
    LET num_latents == NumCols(preacts)
        size        == num_latents \div k
        group(n, g) == SubSeq(preacts[n], (g - 1) * size + 1, g * size)
        offsets     == Arange(num_latents, num_latents \div k)
        local       == [n \in 1..Len(preacts) |-> [g \in 1..k |-> ArgMax(group(n, g)) - 1]]
    IN  IF num_latents % k # 0
        THEN {Raise(RuntimeError("unflatten: sizes do not multiply up to the size of dim"))}
        ELSE {Return([n \in 1..Len(preacts) |-> [g \in 1..k |-> group(n, g)[local[n][g] + 1]]],
                     [n \in 1..Len(preacts) |-> [g \in 1..k |-> offsets[g] + local[n][g]]])}

\* The if / elif / else on `activation`.
Select(preacts, k, activation) ==
    IF activation = "topk" THEN TopK(preacts, k)
    ELSE IF activation = "groupmax" THEN GroupMax(preacts, k)
    ELSE {Raise(ValueError("Unknown activation: " \o activation))}

----------------------------------------------------------------------------
(* Sparse backward (lines 67-101 and 137-172)                              *)

\* F.embedding_bag(indices, weight, mode="sum", per_sample_weights=grad_values)
EmbeddingBag(indices, weight, grad_values) ==
    [n \in 1..Len(indices) |-> [d \in 1..NumCols(weight) |->
        SumSeq([j \in 1..Len(indices[n]) |->
                   grad_values[n][j] * weight[indices[n][j] + 1][d]])]]

\* grad_values.unsqueeze(2) * input.unsqueeze(1), reshaped to (N*k, D).
Contributions(grad_values, input) ==
    Flatten([n \in 1..Len(grad_values) |-> [j \in 1..Len(grad_values[n]) |->
        [d \in 1..NumCols(input) |-> grad_values[n][j] * input[n][d]]]])

\* As IndexAddRows, but a scatter that overwrites: target[index[i]] = source[i].
RECURSIVE IndexPutRows(_, _, _)
IndexPutRows(target, index, source) ==
    IF Len(index) = 0 THEN target
    ELSE IndexPutRows([target EXCEPT ![index[1] + 1] = source[1]],
                      Tail(index), Tail(source))

\* target.index_add_(0, index, source) for a matrix target: for each i in
\* order, target[index[i]] += source[i].
RECURSIVE IndexAddRows(_, _, _)
IndexAddRows(target, index, source) ==
    IF Len(index) = 0 THEN target
    ELSE IndexAddRows(
             [target EXCEPT ![index[1] + 1] =
                 [d \in 1..Len(@) |-> @[d] + source[1][d]]],
             Tail(index), Tail(source))

\* target.index_add_(0, index, source) for a vector target.
RECURSIVE IndexAdd(_, _, _)
IndexAdd(target, index, source) ==
    IF Len(index) = 0 THEN target
    ELSE IndexAdd([target EXCEPT ![index[1] + 1] = @ + source[1]],
                  Tail(index), Tail(source))

ZerosLikeMatrix(t) == [m \in 1..Len(t) |-> [d \in 1..Len(t[m]) |-> 0]]
ZerosLikeVector(t) == [m \in 1..Len(t) |-> 0]

GradInput(saved, grad_values) == EmbeddingBag(saved.indices, saved.weight, grad_values)

GradWeight(saved, grad_values) ==
    IndexAddRows(ZerosLikeMatrix(saved.weight), Flatten(saved.indices),
                 Contributions(grad_values, saved.input))

GradBias(saved, grad_values) ==
    IndexAdd(ZerosLikeVector(Get(saved.bias)), Flatten(saved.indices),
             Flatten(grad_values))

\* As BackwardResult, with the bias gradient gated by the weight's flag.
BackwardResultWrongFlag(saved, needs_input_grad, grad_values, quantization) ==
    [grad_input  |-> IF needs_input_grad[1]
                     THEN Some(GradInput(saved, grad_values)) ELSE None,
     grad_weight |-> IF needs_input_grad[2]
                     THEN Some(GradWeight(saved, grad_values)) ELSE None,
     grad_bias   |-> IF ~IsNone(saved.bias) /\ needs_input_grad[2]
                     THEN Some(GradBias(saved, grad_values)) ELSE None,
     rest        |-> IF quantization THEN <<None, None, None, None, None>>
                     ELSE <<None, None>>]

\* The tuple backward returns: grad_input, grad_weight, grad_bias and one
\* None per remaining argument (k, activation; min_val, max_val, levels too
\* on the quantized path).
BackwardResult(saved, needs_input_grad, grad_values, quantization) ==
    [grad_input  |-> IF needs_input_grad[1]
                     THEN Some(GradInput(saved, grad_values)) ELSE None,
     grad_weight |-> IF needs_input_grad[2]
                     THEN Some(GradWeight(saved, grad_values)) ELSE None,
     grad_bias   |-> IF ~IsNone(saved.bias) /\ needs_input_grad[3]
                     THEN Some(GradBias(saved, grad_values)) ELSE None,
     rest        |-> IF quantization THEN <<None, None, None, None, None>>
                     ELSE <<None, None>>]

----------------------------------------------------------------------------
(* The calls                                                               *)

\* FusedEncoder.forward up to the selection (line 114).
PlainPreacts(a) == Relu(Linear(a.input, a.weight, a.bias))

\* QuantizedFusedEncoder.forward up to the selection (lines 33-45).
QuantizedOut(a) == Relu6(Linear(a.input, a.weight, a.bias))
QuantizedPreacts(a, rand) == Quantize(QuantizedOut(a), rand, a.min_val, a.max_val, a.levels)

\* The random tensors one call can draw: none on the plain path.
RandDraws(a) ==
    IF a.quantization
    THEN {Some(r) : r \in RandLike(QuantizedOut(a), a.max_val - a.min_val)}
    ELSE {None}

\* fused_encoder: the dispatch on `quantization`.
Preacts(a, rand) ==
    IF ~a.quantization THEN PlainPreacts(a) ELSE QuantizedPreacts(a, Get(rand))

\* As SaveForBackward, but into one slot every call shares.
SaveForBackwardShared(cx, c, a, indices) ==
    [d \in DOMAIN cx |-> Some([input |-> a.input, weight |-> a.weight, bias |-> a.bias,
                               indices |-> indices, k |-> a.k])]

\* ctx.save_for_backward(input, weight, bias, indices); ctx.k = k, on the
\* context of call c.
SaveForBackward(cx, c, a, indices) ==
    [cx EXCEPT ![c] = Some([input |-> a.input, weight |-> a.weight, bias |-> a.bias,
                            indices |-> indices, k |-> a.k])]

EncoderOutput(values, indices, preacts) ==
    [top_acts |-> values, top_indices |-> indices, pre_acts |-> preacts]

NoFrame == [preacts |-> None, rand |-> None]

Tensors(rows, cols, Vals) == [1..rows -> [1..cols -> Vals]]

\* No bias, or the same bias b on every latent, for b in Bs.
Biases(M, Bs) == {None} \cup {Some([m \in 1..M |-> b]) : b \in Bs}

\* The argument records of the calls a domain describes.  A domain gives the
\* shapes <<N, D, M>>, the entries of input and weight, the bias entries,
\* the activations and the quantization arguments; k ranges over 1..M, and
\* up to M + kOver where the domain has calls with k above M.
Args(i, w, b, k, act, q) ==
    [input |-> i, weight |-> w, bias |-> b, k |-> k, activation |-> act,
     quantization |-> q.on, min_val |-> q.min_val, max_val |-> q.max_val,
     levels |-> q.levels]

\* forward, from the first statement to the return or the raise, on the
\* arguments a with the random tensor rand: the linear and rectifier stage,
\* the quantizer on the quantized path, then the selection, which either
\* raises or saves for backward and returns.
ForwardCall(c, a, rand) ==
    LET preacts == Preacts(a, rand)
    IN  \E r \in Select(preacts, a.k, a.activation) :
          /\ pc' = [pc EXCEPT ![c] = IF r.ok THEN "forwarded" ELSE "raised"]
          /\ args' = [args EXCEPT ![c] = Some(a)]
          /\ frame' = [frame EXCEPT ![c] = [preacts |-> Some(preacts), rand |-> rand]]
          /\ out' = [out EXCEPT ![c] =
                       IF r.ok THEN Some(EncoderOutput(r.values, r.indices, preacts))
                       ELSE None]
          /\ err' = [err EXCEPT ![c] = r.err]
          /\ ctx' = IF r.ok THEN SaveForBackward(ctx, c, a, r.indices) ELSE ctx

\* One call of fused_encoder with arguments drawn from the domain dom.
Forward(c, dom) ==
    /\ pc[c] = "init"
    /\ \E s \in dom.shapes, act \in dom.acts, q \in dom.quants :
       \E i \in Tensors(s[1], s[2], dom.inVals), w \in Tensors(s[3], s[2], dom.wVals) :
       \E b \in Biases(s[3], dom.bVals), k \in 1..(s[3] + dom.kOver) :
         LET a == Args(i, w, b, k, act, q)
         IN  \E rand \in RandDraws(a) : ForwardCall(c, a, rand)
    /\ UNCHANGED <<gargs, grads>>

\* The autograd engine calls backward of a call whose forward returned, with
\* the upstream gradient of `values` (those of indices and preacts are
\* ignored) and the per-input needs_input_grad flags.
Backward(c, GradVals, Flags) ==
    /\ pc[c] = "forwarded"
    /\ LET saved == Get(ctx[c])
       IN  \E needs_input_grad \in Flags :
           \E grad_values \in [1..Len(saved.indices) -> [1..saved.k -> GradVals]] :
             /\ gargs' = [gargs EXCEPT ![c] =
                            Some([grad_values |-> grad_values,
                                  needs_input_grad |-> needs_input_grad])]
             /\ grads' = [grads EXCEPT ![c] =
                            Some(BackwardResult(saved, needs_input_grad, grad_values,
                                                Get(args[c]).quantization))]
    /\ pc' = [pc EXCEPT ![c] = "done"]
    /\ UNCHANGED <<args, frame, out, err, ctx>>

InitCalls(Calls) ==
    /\ pc = [c \in Calls |-> "init"]
    /\ args = [c \in Calls |-> None]
    /\ frame = [c \in Calls |-> NoFrame]
    /\ out = [c \in Calls |-> None]
    /\ err = [c \in Calls |-> None]
    /\ ctx = [c \in Calls |-> None]
    /\ gargs = [c \in Calls |-> None]
    /\ grads = [c \in Calls |-> None]

----------------------------------------------------------------------------
(* Argument sets                                                           *)

\* The quantization arguments of a call: off (the plain path ignores the
\* three numbers) or on with the given parameters.
QuantOff == [on |-> FALSE, min_val |-> 0, max_val |-> 6, levels |-> 2]
QuantOn(lo, hi, levels) == [on |-> TRUE, min_val |-> lo, max_val |-> hi, levels |-> levels]

Activations == {"topk", "groupmax", "bogus"}

----------------------------------------------------------------------------
(* Spec: one call of fused_encoder, over a wide set of arguments           *)

MaxW == 2          \* weight entries are -1..MaxW
FwdIn == {1, 3}    \* input entries
FwdW == (-1)..MaxW

\* <<N, D, M>> of the plain calls and of the quantized calls.
PlainShapes == {<<1, 1, 3>>, <<1, 1, 4>>, <<2, 1, 2>>, <<1, 2, 2>>}
QuantShapes == {<<1, 1, 2>>}

\* (min_val, max_val, levels): max_val > min_val, levels >= 1 and
\* (max_val - min_val) a multiple of (levels - 1).
QuantGrid == {QuantOn(0, 6, 4), QuantOn(0, 6, 3), QuantOn(0, 6, 7),
              QuantOn(0, 1, 2), QuantOn(1, 3, 3), QuantOn(0, 6, 1)}

Domain(shapes, inVals, wVals, bVals, kOver, acts, quants) ==
    [shapes |-> shapes, inVals |-> inVals, wVals |-> wVals, bVals |-> bVals,
     kOver |-> kOver, acts |-> acts, quants |-> quants]

FwdPlain == Domain(PlainShapes, FwdIn, FwdW, {1}, 1, Activations, {QuantOff})
FwdQuant == Domain(QuantShapes, FwdIn, FwdW, {1}, 1, Activations, QuantGrid)

Init == InitCalls({1})
Next == Forward(1, FwdPlain) \/ Forward(1, FwdQuant)
Spec == Init /\ [][Next]_vars

----------------------------------------------------------------------------
(* Properties of forward                                                   *)

Returned(c) == pc[c] \in {"forwarded", "done"}
Called(c) == pc[c] # "init"
ArgsOf(c) == Get(args[c])
OutOf(c) == Get(out[c])
LatentsOf(c) == NumRows(ArgsOf(c).weight)

Count(row, v) == Cardinality({i \in 1..Len(row) : FloatEq(row[i], v)})
CountGreater(row, v) == Cardinality({i \in 1..Len(row) : ~FloatLe(row[i], v)})
Min(x, y) == IF x < y THEN x ELSE y
Max(x, y) == IF x > y THEN x ELSE y
Range(row) == {row[i] : i \in 1..Len(row)}

\* How often v occurs among the k largest entries of row: the entries above
\* v fill the first slots, v fills what is left, as far as it occurs.
CountInLargest(row, k, v) == Min(Count(row, v), Max(0, k - CountGreater(row, v)))

\* The rows of a returned topk call hold the k largest entries of preacts
\* and the indices point at the values.
TopKRowsCorrect(c) ==
    LET o == OutOf(c)
        k == ArgsOf(c).k
    IN  \A n \in 1..NumRows(o.pre_acts) :
          /\ Len(o.top_acts[n]) = k /\ Len(o.top_indices[n]) = k
          /\ \A i \in 1..k :
               /\ o.top_indices[n][i] \in 0..(LatentsOf(c) - 1)
               /\ FloatEq(o.pre_acts[n][o.top_indices[n][i] + 1], o.top_acts[n][i])
          /\ \A v \in Range(o.pre_acts[n]) \cup Range(o.top_acts[n]) :
               Count(o.top_acts[n], v) = CountInLargest(o.pre_acts[n], k, v)

\* A call whose preacts are numbers: every call but the quantized ones with
\* levels = 1, whose preacts are NaN throughout.
FiniteCall(c) == ~(ArgsOf(c).quantization /\ ArgsOf(c).levels < 2)

\* C1 (as claimed): with activation "topk" and 1 <= k <= M, on either path,
\* every row of the returned values holds exactly the k largest entries of
\* that row of preacts (as a multiset), and every returned index points at
\* its value: preacts[n, indices[n, i]] == values[n, i].
C1_TopKSelectsLargest ==
    \A c \in DOMAIN pc :
        (Called(c) /\ ArgsOf(c).activation = "topk" /\ ArgsOf(c).k <= LatentsOf(c)) =>
            (Returned(c) /\ TopKRowsCorrect(c))

\* The same over the calls whose preacts are numbers.
TopKSelectsLargestWhereFinite ==
    \A c \in DOMAIN pc :
        (Called(c) /\ ArgsOf(c).activation = "topk" /\ ArgsOf(c).k <= LatentsOf(c)
                   /\ FiniteCall(c)) =>
            (Returned(c) /\ TopKRowsCorrect(c))

\* A topk call that had to leave entries out, over a row with a tie among
\* its entries, and returned the values in an order that is not descending.
C1_Witness ==
    \E c \in DOMAIN pc :
        /\ Returned(c) /\ ArgsOf(c).activation = "topk"
        /\ ArgsOf(c).k >= 2 /\ ArgsOf(c).k < LatentsOf(c)
        /\ Cardinality(Range(OutOf(c).pre_acts[1])) \in 2..(LatentsOf(c) - 1)
        /\ OutOf(c).top_acts[1][1] < OutOf(c).top_acts[1][2]

\* Slot g of every row of a returned groupmax call holds the maximum of the
\* g-th block of M/k columns and a global column of that block that holds
\* it, namely an in-block argmax plus g * (M // k), in group order.
GroupMaxRowsCorrect(c) ==
    LET o == OutOf(c)
        k == ArgsOf(c).k
        size == LatentsOf(c) \div k
    IN  \A n \in 1..NumRows(o.pre_acts) :
          /\ Len(o.top_acts[n]) = k /\ Len(o.top_indices[n]) = k
          /\ \A g \in 0..(k - 1) :
               LET cols == (g * size)..((g + 1) * size - 1)
                   idx == o.top_indices[n][g + 1]
               IN  /\ idx \in cols
                   /\ idx - g * size \in 0..(size - 1)
                   /\ FloatEq(o.pre_acts[n][idx + 1], o.top_acts[n][g + 1])
                   /\ \A m \in cols :
                          FloatLe(o.pre_acts[n][m + 1], o.top_acts[n][g + 1])

\* C2 (as claimed): with activation "groupmax" and k dividing M, on either
\* path, values[n, g] equals the maximum of block g of preacts[n],
\* indices[n, g] is the in-block argmax plus g * (M // k), a column of that
\* block, and preacts[n, indices[n, g]] == values[n, g]; group 0 first.
C2_GroupMaxPerGroup ==
    \A c \in DOMAIN pc :
        (Called(c) /\ ArgsOf(c).activation = "groupmax"
                   /\ LatentsOf(c) % ArgsOf(c).k = 0) =>
            (Returned(c) /\ GroupMaxRowsCorrect(c))

\* The same over the calls whose preacts are numbers.
GroupMaxPerGroupWhereFinite ==
    \A c \in DOMAIN pc :
        (Called(c) /\ ArgsOf(c).activation = "groupmax"
                   /\ LatentsOf(c) % ArgsOf(c).k = 0 /\ FiniteCall(c)) =>
            (Returned(c) /\ GroupMaxRowsCorrect(c))

\* A groupmax call with groups of more than one column where the second
\* group's maximum is not in the group's first column.
C2_Witness ==
    \E c \in DOMAIN pc :
        /\ Returned(c) /\ ArgsOf(c).activation = "groupmax"
        /\ ArgsOf(c).k >= 2 /\ LatentsOf(c) \div ArgsOf(c).k >= 2
        /\ OutOf(c).top_indices[1][2] > LatentsOf(c) \div ArgsOf(c).k

QuantGridValues(a) ==
    {a.min_val + (i * (a.max_val - a.min_val)) \div (a.levels - 1) : i \in 0..(a.levels - 1)}

\* C5 (as claimed): with quantization on, levels >= 2 and max_val > min_val,
\* every entry of the returned pre_acts and top_acts lies on the grid
\* min_val + i * (max_val - min_val) / (levels - 1), i in 0..levels-1.
C5_OnGrid ==
    \A c \in DOMAIN pc :
        (Returned(c) /\ ArgsOf(c).quantization /\ ArgsOf(c).levels >= 2
                     /\ ArgsOf(c).max_val > ArgsOf(c).min_val) =>
            \A n \in 1..NumRows(OutOf(c).pre_acts) :
                /\ Range(OutOf(c).pre_acts[n]) \subseteq QuantGridValues(ArgsOf(c))
                /\ Range(OutOf(c).top_acts[n]) \subseteq QuantGridValues(ArgsOf(c))

InvalidArgument(e) == ~IsNone(e) /\ Get(e).type = "ValueError"
NothingComputed(c) == IsNone(frame[c].preacts) /\ IsNone(frame[c].rand)
NothingSaved(c) == IsNone(ctx[c]) /\ IsNone(out[c])

\* C6 (as claimed): a call with an activation other than "topk" and
\* "groupmax" raises an invalid-argument error naming the value, having run
\* no stage, drawn no random value and saved nothing.
C6_UnknownActivationFailsFirst ==
    \A c \in DOMAIN pc :
        (Called(c) /\ ArgsOf(c).activation \notin {"topk", "groupmax"}) =>
            /\ pc[c] = "raised"
            /\ err[c] = Some(ValueError("Unknown activation: " \o ArgsOf(c).activation))
            /\ NothingComputed(c)
            /\ NothingSaved(c)

\* C7 (as claimed): a quantized call with levels < 2 is rejected with an
\* invalid-argument error before any computation.
C7_LevelsRejected ==
    \A c \in DOMAIN pc :
        (Called(c) /\ ArgsOf(c).quantization /\ ArgsOf(c).levels < 2) =>
            /\ pc[c] = "raised"
            /\ InvalidArgument(err[c])
            /\ NothingComputed(c)

\* C8 (as claimed): a groupmax call with k not dividing M fails fast with an
\* invalid-argument error from a checked precondition: nothing is computed,
\* returned or saved.
C8_UnevenGroupsRejected ==
    \A c \in DOMAIN pc :
        (Called(c) /\ ArgsOf(c).activation = "groupmax"
                   /\ LatentsOf(c) % ArgsOf(c).k # 0) =>
            /\ pc[c] = "raised"
            /\ InvalidArgument(err[c])
            /\ NothingComputed(c)
            /\ NothingSaved(c)

----------------------------------------------------------------------------
(* SpecBackward: one call, forward then backward                           *)

MaxGrad == 2       \* upstream gradient entries are 1..MaxGrad
MaxBwdW == 1       \* weight entries are -1..MaxBwdW
AllFlags == [1..3 -> BOOLEAN]

BwdRows == Domain({<<2, 1, 2>>}, {1, 2}, (-1)..MaxBwdW, {1}, 0, {"topk", "groupmax"},
                  {QuantOff})
BwdCols == Domain({<<1, 2, 2>>}, {1, 2}, {-1, 1}, {1}, 0, {"topk", "groupmax"},
                  {QuantOff})
BwdQuant == Domain({<<1, 1, 2>>}, {1, 3}, (-1)..MaxBwdW, {1}, 0, {"topk", "groupmax"},
                   {QuantOn(0, 6, 4), QuantOn(0, 3, 2)})

InitBackward == InitCalls({1})
NextBackward ==
    \/ Forward(1, BwdRows)
    \/ Forward(1, BwdCols)
    \/ Forward(1, BwdQuant)
    \/ Backward(1, 1..MaxGrad, AllFlags)
SpecBackward == InitBackward /\ [][NextBackward]_vars

----------------------------------------------------------------------------
(* Properties of backward                                                  *)

SavedOf(c) == Get(ctx[c])
GradsOf(c) == Get(grads[c])
GradValuesOf(c) == Get(gargs[c]).grad_values
FlagsOf(c) == Get(gargs[c]).needs_input_grad

\* The sum of f[x] over the finite set S.
RECURSIVE SumOver(_, _)
SumOver(S, f) ==
    IF S = {} THEN 0
    ELSE LET x == CHOOSE y \in S : TRUE IN f[x] + SumOver(S \ {x}, f)

\* The (row, slot) pairs of `indices` that selected latent m (0-based).
Selecting(indices, m) ==
    {p \in (1..Len(indices)) \X (1..Len(indices[1])) : indices[p[1]][p[2]] = m}

\* The gradient of the dense computation: values = gather(rect(input @
\* weight.T + bias), indices), the rounding of the quantized path taken as
\* the identity.  The rectifier passes a gradient where its input z is
\* above 0 (and below 6 for relu6).
DenseGradZ(c) ==
    LET a == ArgsOf(c)
        z == Linear(a.input, a.weight, a.bias)
        idx == OutOf(c).top_indices
        passes(x) == IF a.quantization THEN x > 0 /\ x < 6 ELSE x > 0
    IN  [n \in 1..NumRows(a.input) |-> [m \in 1..NumRows(a.weight) |->
            IF passes(z[n][m])
            THEN SumSeq([j \in 1..Len(idx[n]) |->
                            IF idx[n][j] = m - 1 THEN GradValuesOf(c)[n][j] ELSE 0])
            ELSE 0]]

DenseGradInput(c) ==
    LET a == ArgsOf(c) g == DenseGradZ(c)
    IN  [n \in 1..NumRows(a.input) |-> [d \in 1..NumCols(a.input) |->
            SumSeq([m \in 1..NumRows(a.weight) |-> g[n][m] * a.weight[m][d]])]]

DenseGradWeight(c) ==
    LET a == ArgsOf(c) g == DenseGradZ(c)
    IN  [m \in 1..NumRows(a.weight) |-> [d \in 1..NumCols(a.input) |->
            SumSeq([n \in 1..NumRows(a.input) |-> g[n][m] * a.input[n][d]])]]

DenseGradBias(c) ==
    LET a == ArgsOf(c) g == DenseGradZ(c)
    IN  [m \in 1..NumRows(a.weight) |->
            SumSeq([n \in 1..NumRows(a.input) |-> g[n][m]])]

\* C3 (as claimed): every gradient the sparse backward returns equals the
\* gradient of the dense computation (linear, rectifier, rounding as the
\* identity) gathered at the selected indices.
C3_SparseEqualsDense ==
    \A c \in DOMAIN pc :
        pc[c] = "done" =>
            /\ ~IsNone(GradsOf(c).grad_input) =>
                   Get(GradsOf(c).grad_input) = DenseGradInput(c)
            /\ ~IsNone(GradsOf(c).grad_weight) =>
                   Get(GradsOf(c).grad_weight) = DenseGradWeight(c)
            /\ ~IsNone(GradsOf(c).grad_bias) =>
                   Get(GradsOf(c).grad_bias) = DenseGradBias(c)

\* C4: when the weight (the bias) needs a gradient, row m of grad_weight
\* (entry m of grad_bias) is the sum over ALL (n, j) with indices[n, j] = m
\* of grad_values[n, j] * input[n] (of grad_values[n, j]): a latent two rows
\* selected gets both contributions, a latent nobody selected gets zero.
C4_ScatterAccumulates ==
    \A c \in DOMAIN pc :
        pc[c] = "done" =>
            LET a == ArgsOf(c)
                idx == OutOf(c).top_indices
                gv == GradValuesOf(c)
            IN  /\ FlagsOf(c)[2] =>
                     /\ ~IsNone(GradsOf(c).grad_weight)
                     /\ \A m \in 0..(LatentsOf(c) - 1), d \in 1..NumCols(a.input) :
                          Get(GradsOf(c).grad_weight)[m + 1][d] =
                              SumOver(Selecting(idx, m),
                                      [p \in Selecting(idx, m) |->
                                          gv[p[1]][p[2]] * a.input[p[1]][d]])
                /\ (FlagsOf(c)[3] /\ ~IsNone(a.bias)) =>
                     /\ ~IsNone(GradsOf(c).grad_bias)
                     /\ \A m \in 0..(LatentsOf(c) - 1) :
                          Get(GradsOf(c).grad_bias)[m + 1] =
                              SumOver(Selecting(idx, m),
                                      [p \in Selecting(idx, m) |-> gv[p[1]][p[2]]])

\* A backward where both rows selected latent 1 and nobody selected latent 0,
\* with different upstream gradients on the two rows and both gradients asked.
C4_Witness ==
    \E c \in DOMAIN pc :
        /\ pc[c] = "done" /\ FlagsOf(c)[2] /\ FlagsOf(c)[3] /\ ~IsNone(ArgsOf(c).bias)
        /\ OutOf(c).top_indices = <<<<1>>, <<1>>>>
        /\ GradValuesOf(c) = <<<<1>>, <<2>>>>
        /\ Get(GradsOf(c).grad_bias) = <<0, 3>>

\* C9: backward returns a gradient for exactly the tensors among input,
\* weight and bias whose needs_input_grad flag is set (for the bias: and
\* that is present), each independently of the others, None for the rest,
\* and None for k, activation and, on the quantized path, min_val, max_val
\* and levels.
C9_GradientsOnlyWhereAsked ==
    \A c \in DOMAIN pc :
        pc[c] = "done" =>
            LET g == GradsOf(c)
                a == ArgsOf(c)
            IN  /\ IsNone(g.grad_input) <=> ~FlagsOf(c)[1]
                /\ IsNone(g.grad_weight) <=> ~FlagsOf(c)[2]
                /\ IsNone(g.grad_bias) <=> ~(FlagsOf(c)[3] /\ ~IsNone(a.bias))
                /\ Len(g.rest) = (IF a.quantization THEN 5 ELSE 2)
                /\ \A i \in 1..Len(g.rest) : IsNone(g.rest[i])
                /\ ~IsNone(g.grad_input) =>
                       /\ Len(Get(g.grad_input)) = NumRows(a.input)
                       /\ Len(Get(g.grad_input)[1]) = NumCols(a.input)
                /\ ~IsNone(g.grad_weight) =>
                       /\ Len(Get(g.grad_weight)) = NumRows(a.weight)
                       /\ Len(Get(g.grad_weight)[1]) = NumCols(a.weight)
                /\ ~IsNone(g.grad_bias) => Len(Get(g.grad_bias)) = NumRows(a.weight)

\* A backward asked for the bias gradient alone, with a bias present.
C9_Witness ==
    \E c \in DOMAIN pc :
        /\ pc[c] = "done" /\ FlagsOf(c) = <<FALSE, FALSE, TRUE>>
        /\ ~IsNone(ArgsOf(c).bias) /\ ~IsNone(GradsOf(c).grad_bias)
        /\ IsNone(GradsOf(c).grad_input) /\ IsNone(GradsOf(c).grad_weight)

----------------------------------------------------------------------------
(* SpecCalls: several independent calls, their forward and backward steps  *)
(* interleaved in any order                                                *)

NumCalls == 2
Calls == 1..NumCalls

CallsPlain == Domain({<<1, 1, 2>>}, {1}, {1, 2}, {}, 0, {"topk", "bogus"}, {QuantOff})
CallsQuant == Domain({<<1, 1, 1>>}, {1}, {1, 2}, {1}, 0, {"groupmax"}, {QuantOn(0, 2, 2)})

InitCallsSpec == InitCalls(Calls)
NextCalls ==
    \E c \in Calls :
        \/ Forward(c, CallsPlain)
        \/ Forward(c, CallsQuant)
        \/ Backward(c, {1}, {<<TRUE, TRUE, TRUE>>})
SpecCalls == InitCallsSpec /\ [][NextCalls]_vars

\* What forward of call c saved, from the call's own arguments and result.
OwnSaved(c) ==
    [input |-> ArgsOf(c).input, weight |-> ArgsOf(c).weight, bias |-> ArgsOf(c).bias,
     indices |-> OutOf(c).top_indices, k |-> ArgsOf(c).k]

\* C10: under any interleaving of the calls' steps, the context of a call
\* whose forward returned holds exactly the (input, weight, bias, indices)
\* that forward saved, whatever the other calls did since; the gradients of
\* a finished backward are those of the call's own saved state; a call that
\* has not returned from forward has an empty context, and backward has run
\* only for calls whose forward returned.
C10_SavedStateIsPerCall ==
    \A c \in DOMAIN pc :
        /\ Returned(c) => (~IsNone(ctx[c]) /\ SavedOf(c) = OwnSaved(c) /\ IsNone(err[c]))
        /\ ~Returned(c) => (IsNone(ctx[c]) /\ IsNone(grads[c]) /\ IsNone(gargs[c]))
        /\ pc[c] = "done" =>
               /\ Get(GradsOf(c).grad_input) =
                      EmbeddingBag(OutOf(c).top_indices, ArgsOf(c).weight, GradValuesOf(c))
               /\ Get(GradsOf(c).grad_weight) =
                      [m \in 1..LatentsOf(c) |-> [d \in 1..NumCols(ArgsOf(c).input) |->
                          SumOver(Selecting(OutOf(c).top_indices, m - 1),
                                  [p \in Selecting(OutOf(c).top_indices, m - 1) |->
                                      GradValuesOf(c)[p[1]][p[2]] * ArgsOf(c).input[p[1]][d]])]]
        /\ pc[c] = "raised" => (~IsNone(err[c]) /\ IsNone(out[c]))

\* Call 1 has finished its backward after call 2 saved different tensors
\* and selected different indices in its own forward, and call 2's backward
\* is still to come.
C10_Witness ==
    /\ pc[1] = "done" /\ pc[2] = "forwarded"
    /\ SavedOf(1).weight # SavedOf(2).weight
    /\ SavedOf(1).indices # SavedOf(2).indices
    /\ ArgsOf(1).quantization # ArgsOf(2).quantization

====
